---------------------------- MODULE Spec2Model ----------------------------
(***************************************************************************)
(* A model of package txtopener (leo2904/txtopener): NewReader, newReader, *)
(* determineEncoding, prescan, fromMetaElement and the boms table.         *)
(*                                                                         *)
(* Streams and strings are sequences of bytes (0..255).  A reader is       *)
(* modelled by the bytes it yields when it is read to end-of-stream.       *)
(***************************************************************************)
EXTENDS Integers, Sequences, FiniteSets, TLC

VARIABLES
    pc,       \* position of the NewReader call: start, primed, wrapped, ready, done, panic
    rev,      \* the revision of NewReader that runs: txtopener.go, part_000 or part_001
    lib,      \* generation of golang.org/x/net/html/charset the package is built with
    src,      \* bytes the source reader r delivers before it ends
    fault,    \* TRUE when r ends with an I/O error instead of end-of-stream
    preview,  \* newReader: the lookahead buffer
    enc,      \* newReader: the result of determineEncoding
    stream,   \* bytes of the reader newReader returned (after the transform)
    out,      \* bytes the caller read from NewReader's result
    pass,     \* 1: NewReader on the original input; 2: NewReader on its own output
    first,    \* the original input once the output has been fed back
    call      \* argument and result of a direct call of a helper function

vars == <<pc, rev, lib, src, fault, preview, enc, stream, out, pass, first, call>>

---------------------------------------------------------------------------
(* Byte-string helpers (package bytes / strings). *)

Min(S) == CHOOSE x \in S : \A y \in S : x <= y

Take(s, n) == SubSeq(s, 1, IF n < Len(s) THEN n ELSE Len(s))

Drop(s, n) == SubSeq(s, n + 1, Len(s))

HasPrefix(s, p) == Len(s) >= Len(p) /\ SubSeq(s, 1, Len(p)) = p

\* strings.Index: 0-based offset of the first occurrence of sub, or -1
Index(s, sub) ==
    LET I == {i \in 0..(Len(s) - Len(sub)) : SubSeq(s, i + 1, i + Len(sub)) = sub}
    IN  IF I = {} THEN -1 ELSE Min(I)

\* strings.IndexAny / strings.IndexRune for single-byte characters
IndexAny(s, chars) ==
    LET I == {i \in 0..(Len(s) - 1) : s[i + 1] \in chars}
    IN  IF I = {} THEN -1 ELSE Min(I)

\* 1-based position of the first byte at or after p that satisfies the test, 0 if none
FirstIn(s, p, chars) ==
    LET I == {i \in p..Len(s) : s[i] \in chars}
    IN  IF I = {} THEN 0 ELSE Min(I)

FirstNotIn(s, p, chars) ==
    LET I == {i \in p..Len(s) : s[i] \notin chars}
    IN  IF I = {} THEN 0 ELSE Min(I)

\* " \t\n\f\r"
WhiteSpace == {32, 9, 10, 12, 13}

TrimLeft(s, chars) ==
    LET i == FirstNotIn(s, 1, chars)
    IN  IF i = 0 THEN <<>> ELSE SubSeq(s, i, Len(s))

TrimRight(s, chars) ==
    LET I == {i \in 1..Len(s) : s[i] \notin chars}
    IN  IF I = {} THEN <<>> ELSE SubSeq(s, 1, CHOOSE i \in I : \A j \in I : j <= i)

\* 'A'..'Z' -> 'a'..'z'
LowerByte(c) == IF 65 <= c /\ c <= 90 THEN c + 32 ELSE c

ToLower(s) == [i \in 1..Len(s) |-> LowerByte(s[i])]

---------------------------------------------------------------------------
(* fromMetaElement *)

\* "charset"
sCharset == <<99,104,97,114,115,101,116>>

\* fromMetaElement with "return" in the place of "continue": a "charset" that
\* no '=' follows ends the search
fromMetaElementNoRetry(s) ==
    IF s = <<>> THEN <<>>
    ELSE
    LET csLoc == Index(s, sCharset) IN
    IF csLoc = -1 THEN <<>>
    ELSE
    LET s1 == TrimLeft(Drop(s, csLoc + Len(sCharset)), WhiteSpace) IN
    IF ~HasPrefix(s1, <<61>>) THEN <<>>
    ELSE
    LET s2 == TrimLeft(Drop(s1, 1), WhiteSpace) IN
    IF s2 = <<>> THEN <<>>
    ELSE IF s2[1] \in {34, 39}
    THEN LET s3 == Drop(s2, 1)
             closeQuote == IndexAny(s3, {s2[1]})
         IN  IF closeQuote = -1 THEN <<>> ELSE Take(s3, closeQuote)
    ELSE LET end == IndexAny(s2, {59} \cup WhiteSpace)
         IN  Take(s2, IF end = -1 THEN Len(s2) ELSE end)

RECURSIVE fromMetaElement(_)
fromMetaElement(s) ==
    IF s = <<>> THEN <<>>
    ELSE
    LET csLoc == Index(s, sCharset) IN
    IF csLoc = -1 THEN <<>>
    ELSE
    LET s1 == TrimLeft(Drop(s, csLoc + Len(sCharset)), WhiteSpace) IN
    IF ~HasPrefix(s1, <<61>>) THEN fromMetaElement(s1)
    ELSE
    LET s2 == TrimLeft(Drop(s1, 1), WhiteSpace) IN
    IF s2 = <<>> THEN <<>>
    ELSE IF s2[1] \in {34, 39}
    THEN LET s3 == Drop(s2, 1)
             closeQuote == IndexAny(s3, {s2[1]})
         IN  IF closeQuote = -1 THEN <<>> ELSE Take(s3, closeQuote)
    ELSE LET end == IndexAny(s2, {59} \cup WhiteSpace)
         IN  Take(s2, IF end = -1 THEN Len(s2) ELSE end)

---------------------------------------------------------------------------
(* charset.Lookup (golang.org/x/net/html/charset), restricted to the labels *)
(* the inputs of this model use; any other label is unknown to it.          *)
(* Encodings are named by their Go identifier; "nil" is the nil Encoding.   *)
(* The table-based releases of the library return encoding.Nop for "utf-8"; *)
(* the htmlindex-based releases return unicode.UTF8 in a wrapper, which is  *)
(* never equal to encoding.Nop.                                             *)

Libs == {"table", "htmlindex"}

\* "utf-8", "utf-16le", "utf-16be", "windows-1252", "iso-8859-1", "iso-2022-jp"
lUtf8 == <<117,116,102,45,56>>
lUtf16le == <<117,116,102,45,49,54,108,101>>
lUtf16be == <<117,116,102,45,49,54,98,101>>
lWindows1252 == <<119,105,110,100,111,119,115,45,49,50,53,50>>
lIso88591 == <<105,115,111,45,56,56,53,57,45,49>>
lIso2022jp == <<105,115,111,45,50,48,50,50,45,106,112>>

NoEncoding == [e |-> "nil", name |-> ""]

Lookup(label) ==
    LET l == ToLower(TrimRight(TrimLeft(label, WhiteSpace), WhiteSpace)) IN
    CASE l = lUtf8 -> [e |-> IF lib = "table" THEN "Nop" ELSE "UTF8", name |-> "utf-8"]
      [] l = lUtf16le -> [e |-> "UTF16LE", name |-> "utf-16le"]
      [] l = lUtf16be -> [e |-> "UTF16BE", name |-> "utf-16be"]
      [] l \in {lWindows1252, lIso88591} -> [e |-> "Windows1252", name |-> "windows-1252"]
      [] l = lIso2022jp -> [e |-> "ISO2022JP", name |-> "iso-2022-jp"]
      [] OTHER -> NoEncoding

---------------------------------------------------------------------------
(* html.Tokenizer (golang.org/x/net/html) as prescan uses it: Next,        *)
(* TagName, TagAttr.  The model covers text and start tags; the inputs     *)
(* hold no end tag, comment, doctype, character reference or raw-text      *)
(* element.  A tag cut short by the end of the content is an ErrorToken.   *)

IsLetter(c) == (97 <= c /\ c <= 122) \/ (65 <= c /\ c <= 90)

ErrTag == [err |-> TRUE, name |-> <<>>, attrs |-> <<>>, next |-> 0]

\* readTagAttrKey from position p: [err, key, next]
ReadTagAttrKey(c, p) ==
    LET I == {i \in p..Len(c) : c[i] \in WhiteSpace \cup {47, 62} \/ (c[i] = 61 /\ i > p)} IN
    IF I = {} THEN [err |-> TRUE, key |-> <<>>, next |-> 0]
    ELSE LET k == Min(I) IN
         [err |-> FALSE, key |-> SubSeq(c, p, k - 1),
          next |-> IF c[k] \in WhiteSpace \cup {47} THEN k + 1 ELSE k]

\* readTagAttrVal from position p: [err, val, next]
ReadTagAttrVal(c, p) ==
    LET bad == [err |-> TRUE, val |-> <<>>, next |-> 0]
        v0 == FirstNotIn(c, p, WhiteSpace)
    IN
    IF v0 = 0 THEN bad
    ELSE IF c[v0] # 61 THEN [err |-> FALSE, val |-> <<>>, next |-> v0]
    ELSE
    LET v1 == FirstNotIn(c, v0 + 1, WhiteSpace) IN
    IF v1 = 0 THEN bad
    ELSE IF c[v1] = 62 THEN [err |-> FALSE, val |-> <<>>, next |-> v1]
    ELSE IF c[v1] \in {34, 39}
    THEN LET cl == FirstIn(c, v1 + 1, {c[v1]}) IN
         IF cl = 0 THEN bad
         ELSE [err |-> FALSE, val |-> SubSeq(c, v1 + 1, cl - 1), next |-> cl + 1]
    ELSE LET e2 == FirstIn(c, v1 + 1, WhiteSpace \cup {62}) IN
         IF e2 = 0 THEN bad
         ELSE [err |-> FALSE, val |-> SubSeq(c, v1, e2 - 1),
               next |-> IF c[e2] \in WhiteSpace THEN e2 + 1 ELSE e2]

\* the attribute loop of readTag, at a non-blank byte p; attribute keys are
\* lower-cased as TagAttr returns them
RECURSIVE ReadAttrs(_, _, _)
ReadAttrs(c, p, acc) ==
    IF c[p] = 62 THEN [err |-> FALSE, name |-> <<>>, attrs |-> acc, next |-> p + 1]
    ELSE
    LET k == ReadTagAttrKey(c, p) IN
    IF k.err THEN ErrTag
    ELSE
    LET v == ReadTagAttrVal(c, k.next) IN
    IF v.err THEN ErrTag
    ELSE
    LET w == FirstNotIn(c, v.next, WhiteSpace) IN
    IF w = 0 THEN ErrTag
    ELSE ReadAttrs(c, w, IF k.key # <<>> THEN Append(acc, <<ToLower(k.key), v.val>>) ELSE acc)

\* readStartTag with the tag's first letter at position p
ReadStartTag(c, p) ==
    LET e == FirstIn(c, p + 1, WhiteSpace \cup {47, 62}) IN
    IF e = 0 THEN ErrTag
    ELSE
    LET q == FirstNotIn(c, IF c[e] \in WhiteSpace THEN e + 1 ELSE e, WhiteSpace) IN
    IF q = 0 THEN ErrTag
    ELSE
    LET r == ReadAttrs(c, q, <<>>) IN
    IF r.err THEN ErrTag
    ELSE [err |-> FALSE, name |-> ToLower(SubSeq(c, p, e - 1)), attrs |-> r.attrs, next |-> r.next]

\* Next, repeated until a start tag or the ErrorToken, from position p
NextTag(c, p) ==
    LET I == {i \in p..(Len(c) - 1) : c[i] = 60 /\ IsLetter(c[i + 1])} IN
    IF I = {} THEN ErrTag ELSE ReadStartTag(c, Min(I) + 1)

---------------------------------------------------------------------------
(* prescan *)

\* "meta", "http-equiv", "content", "content-type"
sMeta == <<109,101,116,97>>
sHttpEquiv == <<104,116,116,112,45,101,113,117,105,118>>
sContent == <<99,111,110,116,101,110,116>>
sContentType == <<99,111,110,116,101,110,116,45,116,121,112,101>>

\* the state of the attribute loop before the first attribute
AttrInit == [attrList |-> {}, gotPragma |-> FALSE, needPragma |-> "dontKnow",
             e |-> "nil", name |-> ""]

\* one iteration of the attribute loop
AttrStep(st, key, rawVal) ==
    IF key \in st.attrList THEN st
    ELSE
    LET val == ToLower(rawVal)
        s1 == [st EXCEPT !.attrList = @ \cup {key}]
    IN
    CASE key = sHttpEquiv ->
            IF val = sContentType THEN [s1 EXCEPT !.gotPragma = TRUE] ELSE s1
      [] key = sContent ->
            IF s1.e # "nil" THEN s1
            ELSE LET n == fromMetaElement(val) IN
                 IF n = <<>> THEN [s1 EXCEPT !.name = ""]
                 ELSE LET l == Lookup(n) IN
                      [s1 EXCEPT !.e = l.e, !.name = l.name,
                                 !.needPragma = IF l.e # "nil" THEN "doNeedPragma" ELSE @]
      [] key = sCharset ->
            LET l == Lookup(val) IN
            [s1 EXCEPT !.e = l.e, !.name = l.name, !.needPragma = "doNotNeedPragma"]
      [] OTHER -> s1

RECURSIVE AttrLoop(_, _, _)
AttrLoop(attrs, i, st) ==
    IF i > Len(attrs) THEN st
    ELSE AttrLoop(attrs, i + 1, AttrStep(st, attrs[i][1], attrs[i][2]))

\* what follows the attribute loop when the pragma is not asked for: a
\* charset of the content attribute is returned with or without the pragma
AfterAttrsNoPragma(st) ==
    IF st.needPragma = "dontKnow"
    THEN NoEncoding
    ELSE IF st.name \in {"utf-16le", "utf-16be"}
    THEN [e |-> "Nop", name |-> "utf-8"]
    ELSE IF st.e # "nil" THEN [e |-> st.e, name |-> st.name]
    ELSE NoEncoding

\* what follows the attribute loop, for the state st it ended in: the encoding
\* returned, or NoEncoding when the token loop continues with the next token
AfterAttrs(st) ==
    IF st.needPragma = "dontKnow" \/ (st.needPragma = "doNeedPragma" /\ ~st.gotPragma)
    THEN NoEncoding
    ELSE IF st.name \in {"utf-16le", "utf-16be"}
    THEN [e |-> "Nop", name |-> "utf-8"]
    ELSE IF st.e # "nil" THEN [e |-> st.e, name |-> st.name]
    ELSE NoEncoding

\* the body of the token loop for one meta tag
MetaTag(attrs) == AfterAttrs(AttrLoop(attrs, 1, AttrInit))

RECURSIVE prescanFrom(_, _)
prescanFrom(content, p) ==
    LET t == NextTag(content, p) IN
    IF t.err THEN NoEncoding
    ELSE IF t.name # sMeta THEN prescanFrom(content, t.next)
    ELSE LET r == MetaTag(t.attrs) IN
         IF r.e # "nil" THEN r ELSE prescanFrom(content, t.next)

prescan(content) == prescanFrom(content, 1)

---------------------------------------------------------------------------
(* determineEncoding *)

PreviewSize == 10240

\* the boms table, in its order
boms == << [bom |-> <<254, 255>>, enc |-> lUtf16be],
           [bom |-> <<255, 254>>, enc |-> lUtf16le],
           [bom |-> <<239, 187, 191>>, enc |-> lUtf8] >>

\* mime.ParseMediaType followed by params["charset"], for a content type of
\* the form  type/subtype  or  type/subtype; charset=token : [ok, cs]
\* "charset="
sCharsetEq == <<99,104,97,114,115,101,116,61>>

CharsetParam(contentType) ==
    LET none == [ok |-> FALSE, cs |-> <<>>]
        i == Index(contentType, <<59>>)
    IN
    IF contentType = <<>> \/ i = -1 THEN none
    ELSE LET rest == TrimLeft(Drop(contentType, i + 1), WhiteSpace) IN
         IF HasPrefix(ToLower(rest), sCharsetEq)
         THEN [ok |-> TRUE, cs |-> Drop(rest, Len(sCharsetEq))]
         ELSE none

\* utf8.Valid: every byte is ASCII, or starts a well-formed sequence, or is
\* a continuation byte of the well-formed sequence that starts up to three
\* bytes before it
SeqSize(b) ==
    IF 194 <= b /\ b <= 223 THEN 2
    ELSE IF 224 <= b /\ b <= 239 THEN 3
    ELSE IF 240 <= b /\ b <= 244 THEN 4
    ELSE 0

WellFormedAt(c, p) ==
    LET b == c[p]
        lo == IF b = 224 THEN 160 ELSE IF b = 240 THEN 144 ELSE 128
        hi == IF b = 237 THEN 159 ELSE IF b = 244 THEN 143 ELSE 191
    IN
    /\ SeqSize(b) # 0
    /\ p + SeqSize(b) - 1 <= Len(c)
    /\ lo <= c[p + 1] /\ c[p + 1] <= hi
    /\ \A i \in 2..(SeqSize(b) - 1) : 128 <= c[p + i] /\ c[p + i] <= 191

Valid(c) ==
    \A p \in 1..Len(c) :
        \/ c[p] < 128
        \/ WellFormedAt(c, p)
        \/ /\ 128 <= c[p] /\ c[p] <= 191
           /\ \E k \in 1..3 : p - k >= 1 /\ SeqSize(c[p - k]) > k /\ WellFormedAt(c, p - k)

\* "First eliminate any partial rune at the end": the loop over the last
\* three bytes, which cuts the content at the last rune-start byte it meets
TrimPartialRune(content) ==
    LET n == Len(content)
        J == {j \in (IF n > 3 THEN n - 2 ELSE 1)..n : content[j] < 128 \/ content[j] >= 192}
    IN
    IF J = {} THEN content
    ELSE LET j == CHOOSE x \in J : \A y \in J : y <= x IN
         IF content[j] < 128 THEN content ELSE SubSeq(content, 1, j - 1)

\* the test of the UTF-8 rule: hasHighBit && utf8.Valid(content), after the trim
DetectUTF8(content) ==
    LET t == TrimPartialRune(content) IN
    (\E i \in 1..Len(t) : t[i] >= 128) /\ Valid(t)

\* the first entry of boms whose signature starts the content, 0 if none
BomIndex(content) ==
    LET I == {i \in 1..Len(boms) : HasPrefix(content, boms[i].bom)} IN
    IF I = {} THEN 0 ELSE Min(I)

\* the revisions of NewReader: src/txtopener.go and part_000 call
\* charset.NewReader of the library, part_001 calls its own newReader and
\* determineEncoding, which are the library's with a longer lookahead and
\* another fallback
Revs == {"txtopener.go", "part_000", "part_001"}

\* the encoding of the last rule: ISO 8859-1 in part_001, windows-1252 (the
\* return statement part_001 keeps as a comment) in the library's
\* DetermineEncoding, which the earlier revisions run
Fallback ==
    IF rev = "part_001"
    THEN [e |-> "ISO8859_1", name |-> "ISO 8859-1", certain |-> FALSE]
    ELSE [e |-> "Windows1252", name |-> "windows-1252", certain |-> FALSE]

\* a rule that resolved: the encoding r it found, with the certainty c
Resolved(r, c) == [e |-> r.e, name |-> r.name, certain |-> c]

\* the rules in their order, the first one that matches returns: b is the
\* entry of boms that matched, byType what the content type declares, byMeta
\* what prescan found, isUTF8 the test of the UTF-8 rule
FirstMatch(b, byType, byMeta, isUTF8) ==
    IF b # 0 THEN Resolved(Lookup(boms[b].enc), TRUE)
    ELSE IF byType.e # "nil" THEN Resolved(byType, TRUE)
    ELSE IF byMeta.e # "nil" THEN Resolved(byMeta, FALSE)
    ELSE IF isUTF8 THEN [e |-> "Nop", name |-> "utf-8", certain |-> FALSE]
    ELSE Fallback

\* the declared charset of the content type, looked up
ByContentType(cs) == IF cs.ok THEN Lookup(cs.cs) ELSE NoEncoding

determineEncoding(content0, contentType) ==
    LET content == Take(content0, PreviewSize) IN
    FirstMatch(BomIndex(content),
               ByContentType(CharsetParam(contentType)),
               IF Len(content) > 0 THEN prescan(content) ELSE NoEncoding,
               DetectUTF8(content))

---------------------------------------------------------------------------
(* The decoders e.NewDecoder() of golang.org/x/text that newReader wraps    *)
(* around the stream, as functions from the bytes read to the bytes yielded. *)

\* utf8.EncodeRune
EncodeRune(r) ==
    IF r < 128 THEN <<r>>
    ELSE IF r < 2048 THEN <<192 + (r \div 64), 128 + (r % 64)>>
    ELSE IF r < 65536
    THEN <<224 + (r \div 4096), 128 + ((r \div 64) % 64), 128 + (r % 64)>>
    ELSE <<240 + (r \div 262144), 128 + ((r \div 4096) % 64),
           128 + ((r \div 64) % 64), 128 + (r % 64)>>

\* utf8.RuneError, U+FFFD
RuneError == 65533

\* runes of the bytes 0x80..0x9F in charmap.Windows1252
Windows1252High ==
    <<8364, 129, 8218, 402, 8222, 8230, 8224, 8225, 710, 8240, 352, 8249, 338, 141, 381, 143,
      144, 8216, 8217, 8220, 8221, 8226, 8211, 8212, 732, 8482, 353, 8250, 339, 157, 382, 376>>

CharmapRune(e, b) ==
    IF e = "Windows1252" /\ 128 <= b /\ b <= 159 THEN Windows1252High[b - 127] ELSE b

\* charmap.ISO8859_1 and charmap.Windows1252: each byte is one rune.  The
\* stream is decoded half by half, which yields what decoding it byte after
\* byte yields.
RECURSIVE DecodeCharmap(_, _)
DecodeCharmap(e, s) ==
    IF Len(s) = 0 THEN <<>>
    ELSE IF Len(s) = 1 THEN EncodeRune(CharmapRune(e, s[1]))
    ELSE LET h == Len(s) \div 2 IN
         DecodeCharmap(e, SubSeq(s, 1, h)) \o DecodeCharmap(e, SubSeq(s, h + 1, Len(s)))

\* unicode.UTF16(endianness, unicode.IgnoreBOM): a byte order mark is
\* decoded like any other code unit
Unit16(e, s, p) ==
    IF e = "UTF16LE" THEN s[p] + 256 * s[p + 1] ELSE 256 * s[p] + s[p + 1]

IsSurrogate(x) == 55296 <= x /\ x < 57344

\* utf16.DecodeRune
DecodeSurrogates(r1, r2) ==
    IF 55296 <= r1 /\ r1 < 56320 /\ 56320 <= r2 /\ r2 < 57344
    THEN 65536 + (r1 - 55296) * 1024 + (r2 - 56320)
    ELSE RuneError

RECURSIVE DecodeUTF16(_, _, _)
DecodeUTF16(e, s, p) ==
    IF p > Len(s) THEN <<>>
    ELSE IF p = Len(s) THEN EncodeRune(RuneError)
    ELSE
    LET x == Unit16(e, s, p) IN
    IF ~IsSurrogate(x) THEN EncodeRune(x) \o DecodeUTF16(e, s, p + 2)
    ELSE IF p + 3 > Len(s) THEN EncodeRune(RuneError) \o DecodeUTF16(e, s, p + 2)
    ELSE LET y == Unit16(e, s, p + 2) IN
         IF 55296 <= y /\ y < 56320
         THEN EncodeRune(RuneError) \o DecodeUTF16(e, s, p + 2)
         ELSE EncodeRune(DecodeSurrogates(x, y)) \o DecodeUTF16(e, s, p + 4)

\* unicode.UTF8: well-formed sequences are copied, the maximal subpart of an
\* ill-formed one becomes U+FFFD
RECURSIVE DecodeUTF8(_, _)
DecodeUTF8(s, p) ==
    IF p > Len(s) THEN <<>>
    ELSE
    LET b == s[p]
        size == IF b < 128 THEN 1
                ELSE IF 194 <= b /\ b <= 223 THEN 2
                ELSE IF 224 <= b /\ b <= 239 THEN 3
                ELSE IF 240 <= b /\ b <= 244 THEN 4
                ELSE 0
        lo == IF b = 224 THEN 160 ELSE IF b = 240 THEN 144 ELSE 128
        hi == IF b = 237 THEN 159 ELSE IF b = 244 THEN 143 ELSE 191
        ok(i) == p + i <= Len(s) /\ (IF i = 1 THEN lo ELSE 128) <= s[p + i]
                                 /\ s[p + i] <= (IF i = 1 THEN hi ELSE 191)
        good == IF size <= 1 THEN 0
                ELSE IF ~ok(1) THEN 0
                ELSE IF size = 2 THEN 1
                ELSE IF ~ok(2) THEN 1
                ELSE IF size = 3 THEN 2
                ELSE IF ~ok(3) THEN 2 ELSE 3
    IN
    IF size = 1 THEN <<b>> \o DecodeUTF8(s, p + 1)
    ELSE IF size # 0 /\ good = size - 1
    THEN SubSeq(s, p, p + size - 1) \o DecodeUTF8(s, p + size)
    ELSE EncodeRune(RuneError) \o DecodeUTF8(s, p + 1 + good)

\* japanese.ISO2022JP in its ASCII state.  ESC ( B and ESC ( J select ASCII
\* and yield nothing; the inputs hold no other escape sequence.
RECURSIVE DecodeISO2022JP(_, _)
DecodeISO2022JP(s, p) ==
    IF p > Len(s) THEN <<>>
    ELSE IF s[p] >= 128 THEN EncodeRune(RuneError) \o DecodeISO2022JP(s, p + 1)
    ELSE IF s[p] = 27
    THEN IF p + 2 <= Len(s) /\ s[p + 1] = 40 /\ s[p + 2] \in {66, 74}
         THEN DecodeISO2022JP(s, p + 3)
         ELSE EncodeRune(RuneError) \o DecodeISO2022JP(s, p + 1)
    ELSE <<s[p]>> \o DecodeISO2022JP(s, p + 1)

\* transform.NewReader(r, e.NewDecoder()) read to the end
Decode(e, s) ==
    CASE e \in {"ISO8859_1", "Windows1252"} -> DecodeCharmap(e, s)
      [] e \in {"UTF16LE", "UTF16BE"} -> DecodeUTF16(e, s, 1)
      [] e = "UTF8" -> DecodeUTF8(s, 1)
      [] e = "ISO2022JP" -> DecodeISO2022JP(s, 1)
      [] OTHER -> s

---------------------------------------------------------------------------
(* newReader and NewReader *)

NoResult == [e |-> "nil", name |-> "", certain |-> FALSE]

NoCall == [fn |-> "none"]

\* the lookahead of charset.NewReader
LibPreviewSize == 1024

Lookahead == IF rev = "part_001" THEN PreviewSize ELSE LibPreviewSize

\* newReader, lines 69-77: io.ReadFull fills the lookahead.  A source that
\* ends with an I/O error before the lookahead is full makes newReader return
\* that error, and NewReader panics with it; an empty source makes it return
\* io.EOF, and NewReader returns r itself, which has nothing left.
newReaderPrime ==
    /\ pc = "start"
    /\ IF Len(src) < Lookahead /\ fault
       THEN /\ pc' = "panic"
            /\ UNCHANGED preview
       ELSE IF Len(src) = 0
       THEN /\ pc' = "ready"
            /\ UNCHANGED preview
       ELSE /\ pc' = "primed"
            /\ preview' = Take(src, Lookahead)
    /\ UNCHANGED <<rev, lib, src, fault, enc, stream, out, pass, first, call>>

\* the decoder wrapped around what is left of the source once the lookahead
\* is read, the lookahead itself not put back in front of it
WrapRest(e, s) ==
    IF e # "Nop" THEN Decode(e, Drop(s, PreviewSize)) ELSE Drop(s, PreviewSize)

\* the stream a resolved encoding leaves: the source itself for encoding.Nop,
\* the transform reader otherwise
Wrap(e, s) == IF e # "Nop" THEN Decode(e, s) ELSE s

\* newReader, lines 77-82: the lookahead is put back in front of the source
\* and the stream is wrapped in the decoder of the encoding determined
newReaderWrap ==
    /\ pc = "primed"
    /\ enc' = determineEncoding(preview, <<>>)
    /\ stream' = Wrap(enc'.e, src)
    /\ pc' = "wrapped"
    /\ UNCHANGED <<rev, lib, src, fault, preview, out, pass, first, call>>

\* NewReader of src/txtopener.go, lines 62-76: when the probe reads fewer
\* than three bytes it returns nr itself, which the probe has read to its end,
\* so the bytes the probe read are lost
StripBOMShort(s) ==
    IF Len(s) < 3 THEN <<>>
    ELSE IF Take(s, 3) # <<239, 187, 191>> THEN s
    ELSE Drop(s, 3)

\* no byte order mark probe after decoding
StripBOMNever(s) == s

\* NewReader, lines 49-63: the bytes of the reader it returns, s being the
\* bytes of nr
StripBOM(s) ==
    LET n == IF Len(s) < 3 THEN Len(s) ELSE 3
        bom == Take(s, n)
    IN
    IF n < 3 THEN bom
    ELSE IF bom # <<239, 187, 191>> THEN bom \o Drop(s, 3)
    ELSE Drop(s, 3)

NewReaderStrip ==
    /\ pc = "wrapped"
    /\ stream' = IF rev = "txtopener.go" THEN StripBOMShort(stream) ELSE StripBOM(stream)
    /\ pc' = "ready"
    /\ UNCHANGED <<rev, lib, src, fault, preview, enc, out, pass, first, call>>

\* the caller reads NewReader's result to end-of-stream (ioutil.ReadAll)
ReadAll ==
    /\ pc = "ready"
    /\ out' = stream
    /\ pc' = "done"
    /\ UNCHANGED <<rev, lib, src, fault, preview, enc, stream, pass, first, call>>

\* the caller runs NewReader again, on the bytes it has read
Again ==
    /\ pc = "done"
    /\ pass = 1
    /\ first' = src
    /\ src' = out
    /\ pass' = 2
    /\ pc' = "start"
    /\ preview' = <<>>
    /\ enc' = NoResult
    /\ stream' = <<>>
    /\ out' = <<>>
    /\ UNCHANGED <<rev, lib, fault, call>>

---------------------------------------------------------------------------
(* Inputs *)

MaxBytes == 4
MaxTail == 2
MaxAttrs == 3

RECURSIVE SeqsUpTo(_, _)
SeqsUpTo(S, n) ==
    IF n = 0 THEN {<<>>}
    ELSE LET T == SeqsUpTo(S, n - 1) IN T \cup {Append(t, x) : t \in T, x \in S}

RECURSIVE Flatten(_)
Flatten(ss) == IF ss = <<>> THEN <<>> ELSE Head(ss) \o Flatten(Tail(ss))

\* 'a', NUL, and the bytes of the three byte order marks and of U+00FB (C3 BB)
ByteAlphabet == {97, 0, 239, 187, 191, 255, 254, 195}

ByteInputs == SeqsUpTo(ByteAlphabet, MaxBytes)

\* <meta
tMetaOpen == <<60,109,101,116,97>>
\* charset="windows-1252", charset="nope", charset="utf-16le",
\* charset="iso-2022-jp", charset="utf-8", each after a blank
aCharsetW == <<32,99,104,97,114,115,101,116,61,34,119,105,110,100,111,119,115,45,49,50,53,50,34>>
aCharsetX == <<32,99,104,97,114,115,101,116,61,34,110,111,112,101,34>>
aCharset16 == <<32,99,104,97,114,115,101,116,61,34,117,116,102,45,49,54,108,101,34>>
aCharsetJ == <<32,99,104,97,114,115,101,116,61,34,105,115,111,45,50,48,50,50,45,106,112,34>>
aCharset8 == <<32,99,104,97,114,115,101,116,61,34,117,116,102,45,56,34>>
\* http-equiv="Content-Type", http-equiv="refresh"
aPragma == <<32,104,116,116,112,45,101,113,117,105,118,61,34,67,111,110,116,101,110,116,45,84,121,112,101,34>>
aRefresh == <<32,104,116,116,112,45,101,113,117,105,118,61,34,114,101,102,114,101,115,104,34>>
\* content="text/html; charset=windows-1252", content="text/html; charset=nope"
aContentW == <<32,99,111,110,116,101,110,116,61,34,116,101,120,116,47,104,116,109,108,59,32,99,104,97,114,115,101,116,61,119,105,110,100,111,119,115,45,49,50,53,50,34>>
aContentX == <<32,99,111,110,116,101,110,116,61,34,116,101,120,116,47,104,116,109,108,59,32,99,104,97,114,115,101,116,61,110,111,112,101,34>>

MetaOf(attrs) == tMetaOpen \o Flatten(attrs) \o <<62>>

\* the meta tags of the inputs of NewReader
Tags == { MetaOf(<<aCharsetW>>), MetaOf(<<aCharsetX>>), MetaOf(<<aCharset16>>),
          MetaOf(<<aCharsetJ>>), MetaOf(<<aCharset8>>),
          MetaOf(<<aPragma, aContentW>>), MetaOf(<<aContentW>>) }

\* what precedes a tag: nothing, text, a UTF-8 or a UTF-16LE byte order mark
Before == { <<>>, <<97>>, <<239, 187, 191>>, <<255, 254>> }

\* what follows a tag: 'a', the bytes of U+00FB, and ESC ( B as one piece
TailPieces == { <<97>>, <<195>>, <<187>>, <<27, 40, 66>> }

Tails == {Flatten(t) : t \in SeqsUpTo(TailPieces, MaxTail)}

MarkupInputs == {b \o t \o a : b \in Before, t \in Tags, a \in Tails}

\* inputs that reach to the end of the lookahead and past it
Pad(n) == [i \in 1..n |-> 97]

LongInputs ==
    { Pad(PreviewSize),
      Pad(PreviewSize) \o <<97>>,
      Pad(PreviewSize) \o <<195, 187>>,
      Pad(PreviewSize - 1) \o <<195, 187>>,
      <<195, 187>> \o Pad(PreviewSize - 3) \o <<195, 187>>,
      Pad(PreviewSize) \o MetaOf(<<aCharsetJ>>) \o <<27, 40, 66>> }

Inputs == ByteInputs \cup MarkupInputs \cup LongInputs

---------------------------------------------------------------------------
(* NewReader on every input, and NewReader again on what it yielded *)

Init ==
    /\ pc = "start"
    /\ rev = "part_001"
    /\ lib \in Libs
    /\ src \in Inputs
    /\ fault \in BOOLEAN
    /\ fault => Len(src) < PreviewSize
    /\ preview = <<>>
    /\ enc = NoResult
    /\ stream = <<>>
    /\ out = <<>>
    /\ pass = 1
    /\ first = <<>>
    /\ call = NoCall

Next == newReaderPrime \/ newReaderWrap \/ NewReaderStrip \/ ReadAll \/ Again

Spec == Init /\ [][Next]_vars

\* NewReader in each of its revisions
InitRevs ==
    /\ pc = "start"
    /\ rev \in Revs
    /\ lib \in Libs
    /\ src \in Inputs
    /\ fault \in BOOLEAN
    /\ fault => Len(src) < Lookahead
    /\ preview = <<>>
    /\ enc = NoResult
    /\ stream = <<>>
    /\ out = <<>>
    /\ pass = 1
    /\ first = <<>>
    /\ call = NoCall

SpecRevs == InitRevs /\ [][Next]_vars

---------------------------------------------------------------------------
(* fromMetaElement called on every content value made of a few pieces *)

MaxPieces == 5

\* charset  =  blank  "  '  ;  x
Pieces == { sCharset, <<61>>, <<32>>, <<34>>, <<39>>, <<59>>, <<120>> }

ContentValues == {Flatten(t) : t \in SeqsUpTo(Pieces, MaxPieces)}

InitMeta ==
    /\ pc = "call"
    /\ rev = "part_001"
    /\ lib = "htmlindex"
    /\ src \in ContentValues
    /\ fault = FALSE
    /\ preview = <<>>
    /\ enc = NoResult
    /\ stream = <<>>
    /\ out = <<>>
    /\ pass = 1
    /\ first = <<>>
    /\ call = NoCall

CallFromMetaElement ==
    /\ pc = "call"
    /\ call = NoCall
    /\ call' = [fn |-> "fromMetaElement", res |-> fromMetaElement(src)]
    /\ UNCHANGED <<pc, rev, lib, src, fault, preview, enc, stream, out, pass, first>>

NextMeta == CallFromMetaElement

SpecMeta == InitMeta /\ [][NextMeta]_vars

---------------------------------------------------------------------------
(* determineEncoding and prescan called on contents with meta tags, byte    *)
(* order marks and text, under several declared content types               *)

\* the attributes a meta tag of these contents is made of
AttrPieces == { aCharsetW, aCharsetX, aCharset16, aPragma, aRefresh, aContentW, aContentX }

AttrLists == SeqsUpTo(AttrPieces, MaxAttrs)

\* what follows the first tag: nothing, a tag with only the pragma, a tag
\* with a charset attribute
SecondTags == { <<>>, MetaOf(<<aPragma>>), MetaOf(<<aCharset8>>) }

PrescanInputs == {MetaOf(a) \o t : a \in AttrLists, t \in SecondTags}

\* nothing or a byte order mark, then nothing or a tag, then text: none, 'a',
\* U+00FB, U+00FB 'a', the byte FF, 'a' and U+00FB 'a' followed by the first
\* byte of a two-byte sequence
RuleInputs ==
    { b \o m \o x :
        b \in { <<>>, <<254, 255>>, <<255, 254>>, <<239, 187, 191>> },
        m \in { <<>>, MetaOf(<<aCharsetW>>), MetaOf(<<aCharsetX>>), MetaOf(<<aCharset16>>),
                MetaOf(<<aContentW>>), MetaOf(<<aPragma, aContentW>>) },
        x \in { <<>>, <<97>>, <<195, 187>>, <<195, 187, 97>>, <<255>>, <<97, 195>>,
                <<195, 187, 97, 195>> } }

\* "", text/html, text/html; charset=windows-1252, text/html; charset=nope,
\* text/html; charset=utf-16be, TEXT/HTML; Charset=UTF-8
ContentTypes ==
    { <<>>,
      <<116,101,120,116,47,104,116,109,108>>,
      <<116,101,120,116,47,104,116,109,108,59,32,99,104,97,114,115,101,116,61,119,105,110,100,111,119,115,45,49,50,53,50>>,
      <<116,101,120,116,47,104,116,109,108,59,32,99,104,97,114,115,101,116,61,110,111,112,101>>,
      <<116,101,120,116,47,104,116,109,108,59,32,99,104,97,114,115,101,116,61,117,116,102,45,49,54,98,101>>,
      <<84,69,88,84,47,72,84,77,76,59,32,67,104,97,114,115,101,116,61,85,84,70,45,56>> }

InitDet ==
    /\ pc = "call"
    /\ rev = "part_001"
    /\ lib \in Libs
    /\ src \in PrescanInputs \cup RuleInputs
    /\ fault = FALSE
    /\ preview = <<>>
    /\ enc = NoResult
    /\ stream = <<>>
    /\ out = <<>>
    /\ pass = 1
    /\ first = <<>>
    /\ call = NoCall

CallDetermineEncoding ==
    /\ pc = "call"
    /\ call = NoCall
    /\ \E ct \in ContentTypes :
          call' = [fn |-> "determineEncoding", contentType |-> ct,
                   res |-> determineEncoding(src, ct)]
    /\ UNCHANGED <<pc, rev, lib, src, fault, preview, enc, stream, out, pass, first>>

CallPrescan ==
    /\ pc = "call"
    /\ call = NoCall
    /\ call' = [fn |-> "prescan", res |-> prescan(src)]
    /\ UNCHANGED <<pc, rev, lib, src, fault, preview, enc, stream, out, pass, first>>

NextDet == CallDetermineEncoding \/ CallPrescan

SpecDet == InitDet /\ [][NextDet]_vars

---------------------------------------------------------------------------
(* fromMetaElement: what it returns, stated on the positions of the value   *)

\* the offsets at which "charset" occurs in s
Occurrences(s) == {i \in 0..(Len(s) - Len(sCharset)) : SubSeq(s, i + 1, i + Len(sCharset)) = sCharset}

\* the position of the first byte after the occurrence at offset i that is no
\* whitespace, 0 if there is none
AfterCharset(s, i) == FirstNotIn(s, i + Len(sCharset) + 1, WhiteSpace)

FollowedByEq(s, i) == AfterCharset(s, i) # 0 /\ s[AfterCharset(s, i)] = 61

\* the value after the '=' at position q: quoted up to the matching quote,
\* or a token up to the first whitespace or ';'
ValueAfterEq(s, q) ==
    LET v == FirstNotIn(s, q + 1, WhiteSpace) IN
    IF v = 0 THEN <<>>
    ELSE IF s[v] \in {34, 39}
    THEN LET c == FirstIn(s, v + 1, {s[v]}) IN
         IF c = 0 THEN <<>> ELSE SubSeq(s, v + 1, c - 1)
    ELSE LET e == FirstIn(s, v, {59} \cup WhiteSpace) IN
         SubSeq(s, v, IF e = 0 THEN Len(s) ELSE e - 1)

\* the value of the first "charset" that an '=' follows
ValueOfFirstWithEq(s) ==
    LET G == {i \in Occurrences(s) : FollowedByEq(s, i)} IN
    IF G = {} THEN <<>> ELSE ValueAfterEq(s, AfterCharset(s, Min(G)))

\* the value of the first "charset", empty when no '=' follows it
ValueOfFirst(s) ==
    IF Occurrences(s) = {} \/ ~FollowedByEq(s, Min(Occurrences(s))) THEN <<>>
    ELSE ValueAfterEq(s, AfterCharset(s, Min(Occurrences(s))))

\* C10 (as the code has it): fromMetaElement returns the value that follows
\* the first "charset" which is followed, after optional whitespace, by '=':
\* the quoted value up to the matching quote, or the token up to the first
\* whitespace or ';'.  It returns the empty string when no "charset" is
\* followed by '=', when nothing follows the '=', or when the opening quote
\* has no matching closing quote.
C10_ValueOfFirstCharsetWithEq ==
    call.fn = "fromMetaElement" => call.res = ValueOfFirstWithEq(src)

\* C10 witness: a "charset" that no '=' follows, then one with a value
C10_Witness ==
    /\ call.fn = "fromMetaElement"
    /\ Occurrences(src) # {}
    /\ ~FollowedByEq(src, Min(Occurrences(src)))
    /\ call.res = <<120>>

\* C10 as stated: the located "charset" is the first one, and the result is
\* empty when that one is not followed by '='
C10_AsStated ==
    call.fn = "fromMetaElement" => call.res = ValueOfFirst(src)

---------------------------------------------------------------------------
(* prescan: what a meta tag declares, stated on its attributes              *)

\* the attributes of the meta tags of the content, in their order
RECURSIVE MetaTagsFrom(_, _)
MetaTagsFrom(c, p) ==
    LET t == NextTag(c, p) IN
    IF t.err THEN <<>>
    ELSE (IF t.name = sMeta THEN <<t.attrs>> ELSE <<>>) \o MetaTagsFrom(c, t.next)

\* the first attribute of the tag with this key, 0 if it has none
FirstAttr(attrs, key) ==
    IF \E i \in 1..Len(attrs) : attrs[i][1] = key
    THEN Min({i \in 1..Len(attrs) : attrs[i][1] = key})
    ELSE 0

\* the tag's (first) http-equiv attribute is content-type, in any case
HasPragma(attrs) ==
    /\ FirstAttr(attrs, sHttpEquiv) # 0
    /\ ToLower(attrs[FirstAttr(attrs, sHttpEquiv)][2]) = sContentType

\* some http-equiv attribute of the tag is content-type
CarriesPragma(attrs) ==
    \E i \in 1..Len(attrs) : attrs[i][1] = sHttpEquiv /\ ToLower(attrs[i][2]) = sContentType

\* the encoding the tag's charset attribute names, NoEncoding if there is
\* no such attribute or the registry does not know the name
ByCharsetAttr(attrs) ==
    IF FirstAttr(attrs, sCharset) = 0 THEN NoEncoding
    ELSE Lookup(ToLower(attrs[FirstAttr(attrs, sCharset)][2]))

\* the encoding the charset in the tag's content attribute names
ByContentAttr(attrs) ==
    IF FirstAttr(attrs, sContent) = 0 THEN NoEncoding
    ELSE IF fromMetaElement(ToLower(attrs[FirstAttr(attrs, sContent)][2])) = <<>> THEN NoEncoding
    ELSE Lookup(fromMetaElement(ToLower(attrs[FirstAttr(attrs, sContent)][2])))

\* a declared UTF-16 is taken as UTF-8
AsUnicode(r) == IF r.name \in {"utf-16le", "utf-16be"} THEN [e |-> "Nop", name |-> "utf-8"] ELSE r

\* the charset of the content attribute counts: the registry knows it, the
\* tag has the pragma, and the tag has no charset attribute after the content
\* attribute and no recognized one before it
ContentCounts(attrs) ==
    /\ ByContentAttr(attrs).e # "nil"
    /\ HasPragma(attrs)
    /\ \/ FirstAttr(attrs, sCharset) = 0
       \/ /\ FirstAttr(attrs, sCharset) < FirstAttr(attrs, sContent)
          /\ ByCharsetAttr(attrs).e = "nil"

\* what one meta tag declares
Declared(attrs) ==
    IF ByCharsetAttr(attrs).e # "nil" THEN AsUnicode(ByCharsetAttr(attrs))
    ELSE IF ContentCounts(attrs) THEN AsUnicode(ByContentAttr(attrs))
    ELSE NoEncoding

\* the declaration of the first meta tag, from the i-th on, that declares one
RECURSIVE FirstDeclared(_, _)
FirstDeclared(tags, i) ==
    IF i > Len(tags) THEN NoEncoding
    ELSE IF Declared(tags[i]).e # "nil" THEN Declared(tags[i])
    ELSE FirstDeclared(tags, i + 1)

\* C9 (as the code has it): prescan returns the declaration of the first meta
\* tag that declares an encoding.  The charset of a tag's content attribute
\* determines the encoding if and only if the registry knows it, the first
\* http-equiv attribute of the same tag is content-type (in any case, before
\* or after the content attribute), and the tag has no charset attribute
\* after the content attribute and no recognized one before it; a pragma on
\* another tag does not count.  A recognized charset attribute is accepted
\* without any pragma.
C9_PragmaRule ==
    call.fn = "prescan" => call.res = FirstDeclared(MetaTagsFrom(src, 1), 1)

\* C9 witness: the pragma comes after the content attribute, and the
\* content's charset is returned
C9_Witness ==
    /\ call.fn = "prescan"
    /\ MetaTagsFrom(src, 1) # <<>>
    /\ ContentCounts(MetaTagsFrom(src, 1)[1])
    /\ FirstAttr(MetaTagsFrom(src, 1)[1], sHttpEquiv) > FirstAttr(MetaTagsFrom(src, 1)[1], sContent)
    /\ call.res.e = "Windows1252"

\* C9 witness: a content charset without the pragma on its tag, the pragma
\* on the next tag, and nothing is returned
C9_WitnessOtherTag ==
    /\ call.fn = "prescan"
    /\ Len(MetaTagsFrom(src, 1)) = 2
    /\ ByContentAttr(MetaTagsFrom(src, 1)[1]).e # "nil"
    /\ ~CarriesPragma(MetaTagsFrom(src, 1)[1])
    /\ CarriesPragma(MetaTagsFrom(src, 1)[2])
    /\ call.res.e = "nil"

\* C9 as stated, for the first meta tag of the content: with a recognized
\* content charset and http-equiv=content-type on the tag, that charset is
\* returned; with a content charset, no http-equiv=content-type and no charset
\* attribute, the tag is skipped; a recognized charset attribute is returned
C9_AsStated ==
    (call.fn = "prescan" /\ MetaTagsFrom(src, 1) # <<>>) =>
        /\ (ByContentAttr(MetaTagsFrom(src, 1)[1]).e # "nil" /\ CarriesPragma(MetaTagsFrom(src, 1)[1]))
               => call.res = AsUnicode(ByContentAttr(MetaTagsFrom(src, 1)[1]))
        /\ (~CarriesPragma(MetaTagsFrom(src, 1)[1]) /\ FirstAttr(MetaTagsFrom(src, 1)[1], sCharset) = 0)
               => call.res = FirstDeclared(MetaTagsFrom(src, 1), 2)
        /\ ByCharsetAttr(MetaTagsFrom(src, 1)[1]).e # "nil"
               => call.res = AsUnicode(ByCharsetAttr(MetaTagsFrom(src, 1)[1]))

---------------------------------------------------------------------------
(* determineEncoding: the five rules, stated on the content                 *)

\* the content without the sequence its end cuts short, if there is one: a
\* lead byte among the last three bytes whose sequence would end past the
\* content, followed by continuation bytes only
TrimTruncated(c) ==
    IF \E j \in 1..Len(c) : /\ j > Len(c) - 3
                            /\ j + SeqSize(c[j]) - 1 > Len(c)
                            /\ \A k \in (j + 1)..Len(c) : 128 <= c[k] /\ c[k] <= 191
    THEN SubSeq(c, 1, Min({j \in 1..Len(c) : /\ j > Len(c) - 3
                                            /\ j + SeqSize(c[j]) - 1 > Len(c)
                                            /\ \A k \in (j + 1)..Len(c) : 128 <= c[k] /\ c[k] <= 191}) - 1)
    ELSE c

\* rule 4: valid UTF-8 with a non-ASCII byte, a truncated end aside
IsUTF8Text(c) ==
    /\ \E i \in 1..Len(TrimTruncated(c)) : TrimTruncated(c)[i] >= 128
    /\ Valid(TrimTruncated(c))

\* the number of the lowest-numbered rule that matches
RuleOf(c, ct) ==
    IF BomIndex(c) # 0 THEN 1
    ELSE IF ByContentType(CharsetParam(ct)).e # "nil" THEN 2
    ELSE IF Len(c) > 0 /\ prescan(c).e # "nil" THEN 3
    ELSE IF IsUTF8Text(c) THEN 4
    ELSE 5

\* what each rule resolves to
ResultOf(rule, c, ct) ==
    CASE rule = 1 -> Resolved(Lookup(boms[BomIndex(c)].enc), TRUE)
      [] rule = 2 -> Resolved(ByContentType(CharsetParam(ct)), TRUE)
      [] rule = 3 -> Resolved(prescan(c), FALSE)
      [] rule = 4 -> [e |-> "Nop", name |-> "utf-8", certain |-> FALSE]
      [] OTHER -> [e |-> "ISO8859_1", name |-> "ISO 8859-1", certain |-> FALSE]

\* C8 as stated: determineEncoding returns what the lowest-numbered rule that
\* matches resolves to (byte order mark, recognized charset of the content
\* type, encoding accepted by prescan, valid UTF-8 with a non-ASCII byte,
\* ISO 8859-1), and the certainty is true exactly for rules 1 and 2
C8_FirstMatch ==
    call.fn = "determineEncoding" =>
        /\ call.res = ResultOf(RuleOf(src, call.contentType), src, call.contentType)
        /\ call.res.certain <=> RuleOf(src, call.contentType) \in {1, 2}

\* the same with rule 4 kept out: whenever another rule applies, or the
\* content ends in ASCII, the result is that of the lowest-numbered rule
C8_FirstMatchButRule4 ==
    (call.fn = "determineEncoding"
        /\ (RuleOf(src, call.contentType) # 4 \/ src[Len(src)] < 128)) =>
        /\ call.res = ResultOf(RuleOf(src, call.contentType), src, call.contentType)
        /\ call.res.certain <=> RuleOf(src, call.contentType) \in {1, 2}

---------------------------------------------------------------------------
(* NewReader: what is read from its result                                  *)

IsASCII(s) == \A i \in 1..Len(s) : s[i] < 128

\* the UTF-8 byte order mark
BOM8 == <<239, 187, 191>>

\* C1 as stated: from an input shorter than 3 bytes that is no byte order
\* mark, what is read from NewReader's result is exactly the input
C1_AsStated ==
    (pc = "done" /\ Len(src) < 3 /\ BomIndex(src) = 0) => out = src

\* C2 as stated: an input that begins with the UTF-8 byte order mark yields
\* the input without these three bytes, whatever follows them
C2_UTF8BOMRemoved ==
    (pc = "done" /\ HasPrefix(src, BOM8)) => out = Drop(src, 3)

\* C3 as stated: an input with no byte order mark and no accepted meta
\* declaration that is valid UTF-8 and has a non-ASCII byte resolves to the
\* no-op encoding and is read unchanged
C3_UTF8Unchanged ==
    (pc = "done" /\ BomIndex(src) = 0 /\ ~IsASCII(src) /\ Valid(src)
        /\ prescan(Take(src, PreviewSize)).e = "nil") =>
        (enc.e = "Nop" /\ out = src)

\* C4 (as the code has it): an input that begins with a UTF-16 byte order
\* mark yields the UTF-8 transcoding of the UTF-16 content that follows the
\* mark: exactly one mark is removed, so the output starts with EF BB BF
\* when that content itself starts with U+FEFF; the mark alone yields nothing
C4_UTF16Transcoded ==
    (pc = "done" /\ BomIndex(src) \in {1, 2}) =>
        /\ out = DecodeUTF16(IF BomIndex(src) = 1 THEN "UTF16BE" ELSE "UTF16LE", Drop(src, 2), 1)
        /\ Len(src) = 2 => out = <<>>

\* C4 witness: UTF-16LE content after the mark, transcoded
C4_Witness ==
    pc = "done" /\ pass = 1 /\ src = <<255, 254, 195, 0>> /\ out = <<195, 131>>

\* C4 witness: the mark alone
C4_WitnessBOMAlone == pc = "done" /\ pass = 1 /\ src = <<254, 255>> /\ out = <<>>

\* C4 as stated: the transcoding of what follows the mark, and the output
\* never starts with a byte order mark
C4_AsStated ==
    (pc = "done" /\ BomIndex(src) \in {1, 2}) =>
        /\ out = DecodeUTF16(IF BomIndex(src) = 1 THEN "UTF16BE" ELSE "UTF16LE", Drop(src, 2), 1)
        /\ ~HasPrefix(out, BOM8)

\* C5 (as the code has it): an ASCII input with no byte order mark, of any
\* length, is read unchanged, unless a meta tag that prescan accepts
\* declares an encoding whose decoder does not keep ASCII bytes as they are
\* (iso-2022-jp, whose escape sequences the decoder consumes)
C5_ASCIIUnchanged ==
    (pc = "done" /\ IsASCII(src) /\ prescan(Take(src, PreviewSize)).e # "ISO2022JP") =>
        out = src

\* C5 witness: ASCII markup with an accepted meta declaration
C5_Witness ==
    /\ pc = "done" /\ pass = 1 /\ IsASCII(src)
    /\ prescan(src).e = "Windows1252"
    /\ out = src

\* C5 witness: ASCII text longer than the lookahead
C5_WitnessLong ==
    pc = "done" /\ pass = 1 /\ IsASCII(src) /\ Len(src) > PreviewSize /\ out = src

\* C5 as stated: every ASCII input with no byte order mark is read unchanged
C5_AsStated ==
    (pc = "done" /\ IsASCII(src)) => out = src

\* C6 as stated: NewReader on what was read from NewReader's result yields
\* the same bytes again
C6_Idempotent ==
    (pc = "done" /\ pass = 2) => out = src

\* C7 as stated: NewReader never panics
C7_NeverPanics == pc # "panic"

===========================================================================
